---- MODULE Spec2Model ----
(***************************************************************************)
(* A model of GitEcho (src/echo.py): the capture parser and refspec        *)
(* builder, the origin confirmation poll, the sync session, and the hook   *)
(* script manager.  Text is modelled by TLA+ strings, character by         *)
(* character, so that parsing and block removal are computed as the code   *)
(* computes them.                                                          *)
(***************************************************************************)
EXTENDS Integers, Sequences, FiniteSets, TLC

(***************************************************************************)
(* Program constants.                                                      *)
(***************************************************************************)
REMOTE_PREFIX == "echo-"
HOOK_MARKER_START == "# >>> gitecho hook start >>>"
HOOK_MARKER_END == "# <<< gitecho hook end <<<"
ZERO_SHA == "0000000000000000000000000000000000000000"
ORIGIN_CONFIRM_TIMEOUT_SECONDS == 12
SKIP_HOOK_ENV == "GITECHO_SKIP_HOOK"

\* Python's None, as returned by ls_remote_sha and as the default of refs_file.
None == "<None>"

(***************************************************************************)
(* String primitives, as Python's str methods compute them.                *)
(***************************************************************************)
Ch(s, i) == SubSeq(s, i, i)

MinOf(S) == CHOOSE i \in S : \A j \in S : i <= j
MaxOf(S) == CHOOSE i \in S : \A j \in S : i >= j

\* The k-th smallest element of a finite set of integers.
Nth(S, k) == CHOOSE i \in S : Cardinality({j \in S : j < i}) = k - 1

\* s[i:].startswith(p), positions counted from 1.
StartsWithAt(s, p, i) ==
    /\ i >= 1
    /\ i + Len(p) - 1 <= Len(s)
    /\ SubSeq(s, i, i + Len(p) - 1) = p

StartsWith(s, p) == StartsWithAt(s, p, 1)

EndsWith(s, p) == Len(p) <= Len(s) /\ SubSeq(s, Len(s) - Len(p) + 1, Len(s)) = p

\* The positions at which p occurs in s.
Occurrences(s, p) == {i \in 1..Len(s) : StartsWithAt(s, p, i)}

\* p in s
Contains(s, p) == Occurrences(s, p) # {}

\* s.index(p), counted from 1 (0 when p does not occur).
IndexOf(s, p) ==
    LET hits == Occurrences(s, p) IN IF hits = {} THEN 0 ELSE MinOf(hits)

\* str.isspace() for one character.
IsSpace(c) == c \in {" ", "\t", "\n", "\r", "\f"}

\* The line boundaries str.splitlines() splits at.
IsLineBreak(c) == c \in {"\n", "\r", "\f"}

\* The first position from i on that holds no whitespace (Len(s) + 1 when the
\* whitespace runs to the end).
RECURSIVE SkipSpaces(_, _)
SkipSpaces(s, i) ==
    IF i <= Len(s) /\ IsSpace(Ch(s, i)) THEN SkipSpaces(s, i + 1) ELSE i

\* The last position up to i that holds no whitespace (0 when there is none).
RECURSIVE SkipSpacesBack(_, _)
SkipSpacesBack(s, i) ==
    IF i >= 1 /\ IsSpace(Ch(s, i)) THEN SkipSpacesBack(s, i - 1) ELSE i

\* The same for newlines alone.
RECURSIVE SkipNewlines(_, _)
SkipNewlines(s, i) ==
    IF i <= Len(s) /\ Ch(s, i) = "\n" THEN SkipNewlines(s, i + 1) ELSE i

RECURSIVE SkipNewlinesBack(_, _)
SkipNewlinesBack(s, i) ==
    IF i >= 1 /\ Ch(s, i) = "\n" THEN SkipNewlinesBack(s, i - 1) ELSE i

\* s.strip()
Strip(s) == SubSeq(s, SkipSpaces(s, 1), SkipSpacesBack(s, Len(s)))

\* s.rstrip("\n")
RStripNewlines(s) == SubSeq(s, 1, SkipNewlinesBack(s, Len(s)))

\* s.split(): the maximal runs of non-whitespace characters, in order.
SplitWs(s) ==
    LET starts == {i \in 1..Len(s) :
                      /\ ~IsSpace(Ch(s, i))
                      /\ (i = 1 \/ IsSpace(Ch(s, i - 1)))}
        ends   == {i \in 1..Len(s) :
                      /\ ~IsSpace(Ch(s, i))
                      /\ (i = Len(s) \/ IsSpace(Ch(s, i + 1)))}
    IN  [k \in 1..Cardinality(starts) |-> SubSeq(s, Nth(starts, k), Nth(ends, k))]

\* s.splitlines(): "\r\n" is one boundary, and a final boundary ends the last
\* line without opening an empty one.
SplitLines(s) ==
    LET brk    == {i \in 1..Len(s) :
                      /\ IsLineBreak(Ch(s, i))
                      /\ ~(Ch(s, i) = "\n" /\ i > 1 /\ Ch(s, i - 1) = "\r")}
        \* the last position of the boundary that starts at i
        brkEnd(i) == IF Ch(s, i) = "\r" /\ i < Len(s) /\ Ch(s, i + 1) = "\n"
                     THEN i + 1 ELSE i
        n      == Cardinality(brk)
        from(k) == IF k = 1 THEN 1 ELSE brkEnd(Nth(brk, k - 1)) + 1
        full   == [k \in 1..n |-> SubSeq(s, from(k), Nth(brk, k) - 1)]
        tail   == from(n + 1)
    IN  IF tail <= Len(s) THEN Append(full, SubSeq(s, tail, Len(s))) ELSE full

(***************************************************************************)
(* Ref-update capture and refspec builder.                                 *)
(***************************************************************************)
\* parse_ref_updates: the lines with exactly 4 fields, as 4-tuples, in order.
ParseRefUpdates(raw) ==
    LET lines == SplitLines(raw)
        parts(k) == SplitWs(Strip(lines[k]))
        good  == {k \in 1..Len(lines) : Len(parts(k)) = 4}
    IN  [j \in 1..Cardinality(good) |->
            LET p == parts(Nth(good, j)) IN <<p[1], p[2], p[3], p[4]>>]

\* A build_refspecs that takes the deletion from remote_sha.
RefspecOfRemoteSha(u) ==
    IF u[4] = ZERO_SHA THEN ":" \o u[3] ELSE u[1] \o ":" \o u[3]

\* One refspec of build_refspecs: u = (local_ref, local_sha, remote_ref, remote_sha).
RefspecOf(u) ==
    IF u[2] = ZERO_SHA THEN ":" \o u[3] ELSE u[1] \o ":" \o u[3]

\* build_refspecs
BuildRefspecs(ref_updates) ==
    [j \in 1..Len(ref_updates) |-> RefspecOf(ref_updates[j])]

\* is_mirror_remote
IsMirrorRemote(name) == StartsWith(name, REMOTE_PREFIX)

\* The first number put after a name that is taken (line 89).
FIRST_COUNTER == 2

ASCII_UPPER == "ABCDEFGHIJKLMNOPQRSTUVWXYZ"
ASCII_LOWER == "abcdefghijklmnopqrstuvwxyz"
ASCII_DIGITS == "0123456789"

\* The characters of a string, as a set.
CharsOf(s) == {Ch(s, i) : i \in 1..Len(s)}

\* str.lower() for one character (ASCII).
LowerCh(c) ==
    LET hits == {i \in 1..Len(ASCII_UPPER) : Ch(ASCII_UPPER, i) = c}
    IN  IF hits = {} THEN c ELSE Ch(ASCII_LOWER, MinOf(hits))

RECURSIVE Lower(_)
Lower(s) == IF s = "" THEN "" ELSE LowerCh(Ch(s, 1)) \o Lower(SubSeq(s, 2, Len(s)))

\* A should_continue_on_origin_reject that forgets lower().
ShouldContinueCaseSensitive(value) ==
    Strip(value) \in {"1", "true", "yes", "on"}

\* should_continue_on_origin_reject, given the value os.getenv returns ("" when
\* the variable is not set).
ShouldContinueOnOriginReject(value) ==
    Lower(Strip(value)) \in {"1", "true", "yes", "on"}

\* ls_remote_sha, given whether the transport call raised and what it printed.
LsRemoteSha(raised, out) ==
    IF raised THEN None
    ELSE LET output == Strip(out)
         IN  IF output = "" THEN None
             ELSE LET first_line == SplitWs(SplitLines(output)[1])
                  IN  IF first_line = <<>> THEN None ELSE first_line[1]

\* Lines 159-163 of origin_updates_confirmed: whether update u stays unresolved
\* when the lookup returned remote_tip.
StaysUnresolved(u, remote_tip) ==
    IF u[2] = ZERO_SHA THEN remote_tip # None ELSE remote_tip # u[2]

(***************************************************************************)
(* The hook script manager's text functions.                               *)
(***************************************************************************)
\* The pieces of legacy_pattern (lines 205-212).  Between LEGACY_CMD_A and
\* LEGACY_CMD_B the pattern has an unescaped ".", which takes any character but a
\* newline.
LEGACY_HEAD == "# GitEcho hook\nif command -v ge >/dev/null 2>&1; then\n"
LEGACY_CMD_A == "ge sync --bg >> ~/"
LEGACY_CMD_B == "gitecho.log 2>&1 &\nfi\n"
LEGACY_EXIT == "exit 0\n"

\* Where a match of legacy_pattern that starts at i ends (the position after its
\* last character), or 0 when none starts at i.  "\s*" is followed by a character
\* that is no whitespace, so it takes the whole run.
LegacyMatchEnd(s, i) ==
    IF ~StartsWithAt(s, LEGACY_HEAD, i) THEN 0
    ELSE LET a == SkipSpaces(s, i + Len(LEGACY_HEAD))
             dot == a + Len(LEGACY_CMD_A)
             b == dot + 1
             e == b + Len(LEGACY_CMD_B)
         IN  IF /\ StartsWithAt(s, LEGACY_CMD_A, a)
                /\ dot <= Len(s)
                /\ Ch(s, dot) # "\n"
                /\ StartsWithAt(s, LEGACY_CMD_B, b)
             THEN IF StartsWithAt(s, LEGACY_EXIT, e) THEN e + Len(LEGACY_EXIT) ELSE e
             ELSE 0

\* legacy_pattern.sub("", s[from:]): every match, leftmost first, never
\* overlapping, is dropped.
RECURSIVE LegacySub(_, _)
LegacySub(s, from) ==
    LET hits == {i \in from..Len(s) : LegacyMatchEnd(s, i) # 0}
    IN  IF hits = {} THEN SubSeq(s, from, Len(s))
        ELSE LET i == MinOf(hits)
             IN  SubSeq(s, from, i - 1) \o LegacySub(s, LegacyMatchEnd(s, i))

\* Lines 198-203: the text from the first start marker to the first end marker
\* and the newlines after it is cut out: content[:start] + content[end:].
CutMarkedBlock(content) ==
    LET start == IndexOf(content, HOOK_MARKER_START)
        stop  == IndexOf(content, HOOK_MARKER_END)
    IN  IF start # 0 /\ stop # 0
        THEN LET end == SkipNewlines(content, stop + Len(HOOK_MARKER_END))
             IN  SubSeq(content, 1, start - 1) \o SubSeq(content, end, Len(content))
        ELSE content

\* remove_gitecho_hook_block
RemoveGitechoHookBlock(content) ==
    LET updated == LegacySub(CutMarkedBlock(content), 1)
    IN  IF updated # "" /\ ~EndsWith(updated, "\n") THEN updated \o "\n" ELSE updated

\* script_content of install_hook (lines 226-241).
ScriptContent ==
    HOOK_MARKER_START \o "\n"
    \o "if [ \"${" \o SKIP_HOOK_ENV \o ":-0}\" = \"1\" ]; then\n"
    \o "    :\n"
    \o "elif command -v ge >/dev/null 2>&1; then\n"
    \o "    case \"$1\" in\n"
    \o "        \"" \o REMOTE_PREFIX \o "\"*) ;;\n"
    \o "        *)\n"
    \o "            _ge_refs=\"$(mktemp \"${TMPDIR:-/tmp}/gitecho-refs.XXXXXX\")\"\n"
    \o "            cat > \"$_ge_refs\"\n"
    \o "            ge sync --bg --origin-remote \"$1\" --refs-file \"$_ge_refs\" >> ~/.gitecho.log 2>&1 &\n"
    \o "            ;;\n"
    \o "    esac\n"
    \o "fi\n"
    \o HOOK_MARKER_END \o "\n"

SHEBANG == "#!/bin/sh"

\* What the managed block of script_content does when git runs the hook for a
\* push to dest (its "$1"): whether it starts "ge sync --bg", given the value of
\* SKIP_HOOK_ENV in the environment of the push ("" when unset) and whether ge
\* is on the PATH.
HookLaunchesSync(skip_hook, ge_found, dest) ==
    LET guard == IF skip_hook = "" THEN "0" ELSE skip_hook
    IN  IF guard = "1" THEN FALSE
        ELSE IF ge_found
        THEN ~StartsWith(dest, REMOTE_PREFIX)
        ELSE FALSE

\* What install_hook writes (lines 224-245), given the file's text or None.
InstalledText(file) ==
    LET existing == IF file = None THEN SHEBANG \o "\n" ELSE file
        cleaned  == RStripNewlines(RemoveGitechoHookBlock(existing))
    IN  (IF cleaned # "" THEN cleaned \o "\n" ELSE "") \o ScriptContent

\* A nuke that writes the stripped text back whatever it is.
NukedTextKeepsFile(content) ==
    RemoveGitechoHookBlock(content)

\* What nuke leaves of the hook file (lines 391-399), given its text (not None).
NukedText(content) ==
    LET cleaned == RemoveGitechoHookBlock(content)
    IN  IF cleaned = content THEN content
        ELSE LET stripped == Strip(cleaned)
             IN  IF stripped = "" \/ stripped = SHEBANG THEN None ELSE cleaned

(***************************************************************************)
(* The naming resolver: _slug, _remote_parts, resolve_remote_name.         *)
(* URLs are taken to hold no newline, ';', '[', ']' or '%'.                 *)
(***************************************************************************)
\* The first position from `from` on that holds one of chars (Len(s) + 1 when
\* there is none).
FirstAmong(s, chars, from) ==
    LET hits == {i \in from..Len(s) : Ch(s, i) \in chars}
    IN  IF hits = {} THEN Len(s) + 1 ELSE MinOf(hits)

\* re.sub(r"[^a-z0-9]+", "-", s) from position i on; in_run: the character
\* before i was replaced too.
RECURSIVE SubNonAlnum(_, _, _)
SubNonAlnum(s, i, in_run) ==
    IF i > Len(s) THEN ""
    ELSE IF Ch(s, i) \in CharsOf(ASCII_LOWER) \cup CharsOf(ASCII_DIGITS)
    THEN Ch(s, i) \o SubNonAlnum(s, i + 1, FALSE)
    ELSE (IF in_run THEN "" ELSE "-") \o SubNonAlnum(s, i + 1, TRUE)

\* str.strip("-")
RECURSIVE StripDashes(_)
StripDashes(s) ==
    IF s = "" THEN ""
    ELSE IF Ch(s, 1) = "-" THEN StripDashes(SubSeq(s, 2, Len(s)))
    ELSE IF Ch(s, Len(s)) = "-" THEN StripDashes(SubSeq(s, 1, Len(s) - 1))
    ELSE s

\* _slug, lines 49-51.
Slug(value, fallback) ==
    LET slug == StripDashes(SubNonAlnum(Lower(value), 1, FALSE))
    IN  IF slug = "" THEN fallback ELSE slug

\* urlparse, the scheme: the position of the ":" that ends it (0 when the URL
\* has no scheme).
SchemeEnd(url) ==
    LET i == IndexOf(url, ":")
    IN  IF /\ i > 1
           /\ Ch(url, 1) \in CharsOf(ASCII_UPPER) \cup CharsOf(ASCII_LOWER)
           /\ \A k \in 1..(i - 1) :
                 Ch(url, k) \in CharsOf(ASCII_UPPER) \cup CharsOf(ASCII_LOWER)
                                \cup CharsOf(ASCII_DIGITS) \cup {"+", "-", "."}
        THEN i ELSE 0

\* urlparse, what follows the scheme: the netloc after "//", then the path up to
\* the query or the fragment.
ParseAfterScheme(scheme, rest) ==
    LET has_netloc == StartsWith(rest, "//")
        delim == FirstAmong(rest, {"/", "?", "#"}, 3)
        after == IF has_netloc THEN SubSeq(rest, delim, Len(rest)) ELSE rest
    IN  [scheme |-> scheme,
         netloc |-> IF has_netloc THEN SubSeq(rest, 3, delim - 1) ELSE "",
         path   |-> SubSeq(after, 1, FirstAmong(after, {"?", "#"}, 1) - 1)]

ParseWithSchemeEnd(url, i) ==
    IF i > 0
    THEN ParseAfterScheme(Lower(SubSeq(url, 1, i - 1)), SubSeq(url, i + 1, Len(url)))
    ELSE ParseAfterScheme("", url)

\* urlparse(url), line 56: its scheme, netloc and path.
UrlParse(url) == ParseWithSchemeEnd(url, SchemeEnd(url))

\* parsed.hostname (None when there is none).
Hostname(netloc) ==
    LET ats == Occurrences(netloc, "@")
        hostinfo == IF ats = {} THEN netloc
                    ELSE SubSeq(netloc, MaxOf(ats) + 1, Len(netloc))
        hostname == SubSeq(hostinfo, 1, FirstAmong(hostinfo, {":"}, 1) - 1)
    IN  IF hostname = "" THEN None ELSE Lower(hostname)

\* The groups of the scp pattern when the host starts at s.
ScpGroups(url, s, colon) ==
    [matched |-> TRUE,
     host |-> SubSeq(url, s, colon - 1),
     path |-> SubSeq(url, colon + 1, Len(url))]

\* Whether the scp pattern matches with the host starting at s, the first ":" or
\* "/" from s on being at position colon.
ScpMatchesAt(url, s, colon) ==
    colon > s /\ colon < Len(url) /\ Ch(url, colon) = ":"

ScpMatchFrom(url, good) ==
    IF good = {} THEN [matched |-> FALSE, host |-> "", path |-> ""]
    ELSE ScpGroups(url, MaxOf(good), FirstAmong(url, {":", "/"}, MaxOf(good)))

\* re.match(r"^(?:.+@)?([^:/]+):(.+)$", url), line 62: whether it matches, and
\* its two groups. The optional group is greedy: the host starts after the last
\* "@" that lets the rest match, else at the start.
ScpMatch(url) ==
    ScpMatchFrom(url,
        {s \in {1} \cup {a + 1 : a \in {b \in Occurrences(url, "@") : b > 1}} :
            ScpMatchesAt(url, s, FirstAmong(url, {":", "/"}, s))})

\* str.rstrip("/")
RECURSIVE RStripSlashes(_)
RStripSlashes(s) ==
    IF s # "" /\ Ch(s, Len(s)) = "/" THEN RStripSlashes(SubSeq(s, 1, Len(s) - 1))
    ELSE s

\* s.split("/")[-1]
LastSegment(s) ==
    LET slashes == Occurrences(s, "/")
    IN  IF slashes = {} THEN s ELSE SubSeq(s, MaxOf(slashes) + 1, Len(s))

\* Lines 68-70: the repository's name, from the path.
RepoName(last) ==
    IF EndsWith(last, ".git") THEN SubSeq(last, 1, Len(last) - 4) ELSE last

\* Lines 54-66: <<host, path>>.
HostAndPath(url, parsed, hostname, scp_match) ==
    IF parsed.scheme # "" /\ hostname # None THEN <<hostname, parsed.path>>
    ELSE IF scp_match.matched THEN <<scp_match.host, scp_match.path>>
    ELSE <<"remote", url>>

SlugsOf(host, path) ==
    <<Slug(host, "remote"),
      Slug(RepoName(IF path # "" THEN LastSegment(RStripSlashes(path)) ELSE "repo"),
           "repo")>>

RemotePartsOf(url, parsed) ==
    LET host_path == HostAndPath(url, parsed, Hostname(parsed.netloc), ScpMatch(url))
    IN  SlugsOf(host_path[1], host_path[2])

\* _remote_parts, lines 53-72: <<host slug, repository slug>>.
RemoteParts(url) == RemotePartsOf(url, UrlParse(url))

\* Lines 89-94: the first free "<repo_name>-<counter>", counting up.
RECURSIVE FirstFreeNumbered(_, _, _)
FirstFreeNumbered(repo_name, existing, counter) ==
    LET candidate == repo_name \o "-" \o ToString(counter)
    IN  IF candidate \notin existing THEN candidate
        ELSE FirstFreeNumbered(repo_name, existing, counter + 1)

\* Lines 81-94: the first candidate that is not an existing name.
FirstFreeName(domain_name, repo_name, existing) ==
    IF domain_name \notin existing THEN domain_name
    ELSE IF repo_name \notin existing THEN repo_name
    ELSE FirstFreeNumbered(repo_name, existing, FIRST_COUNTER)

\* Lines 79-94, given what _remote_parts returned.
NewName(parts, existing) ==
    FirstFreeName(REMOTE_PREFIX \o parts[1],
                  REMOTE_PREFIX \o parts[1] \o "-" \o parts[2],
                  existing)

NewNameRepoFirst(parts, existing) ==
    FirstFreeName(REMOTE_PREFIX \o parts[1] \o "-" \o parts[2],
                  REMOTE_PREFIX \o parts[1],
                  existing)

\* A resolver that does not look for the URL among the remotes.
ResolveIgnoringUrls(names, remote_urls, url) ==
    <<NewName(RemoteParts(url), {names[i] : i \in 1..Len(names)}), FALSE>>

\* A resolver that tries the longer name first.
ResolveRepoNameFirst(names, remote_urls, url) ==
    LET hits == {i \in 1..Len(names) : remote_urls[i] = url}
    IN  IF hits # {} THEN <<names[MinOf(hits)], TRUE>>
        ELSE <<NewNameRepoFirst(RemoteParts(url), {names[i] : i \in 1..Len(names)}),
               FALSE>>

\* resolve_remote_name, lines 74-94, given repo.remotes as names and their URLs:
\* <<name, already_linked>>.
ResolveRemoteName(names, remote_urls, url) ==
    LET hits == {i \in 1..Len(names) : remote_urls[i] = url}
    IN  IF hits # {} THEN <<names[MinOf(hits)], TRUE>>
        ELSE <<NewName(RemoteParts(url), {names[i] : i \in 1..Len(names)}), FALSE>>

(***************************************************************************)
(* State.                                                                  *)
(***************************************************************************)
VARIABLES
    pc,            \* the position of the running operation
    caller,        \* who called origin_updates_confirmed: "sync" or "direct"
    \* --- the arguments of sync
    bg,            \* --bg
    all,           \* --all
    refs_file,     \* --refs-file: None or the path of the capture artifact
    origin_remote, \* --origin-remote
    \* --- the environment of the session
    isRepo,        \* whether the working directory is inside a git repository
    remotes,       \* repo.remotes: the configured remote names, in order
    urls,          \* the URL of each of them, in the same order
    envContinue,   \* os.getenv(CONTINUE_ON_ORIGIN_REJECT_ENV, "")
    artifact,      \* whether the capture artifact exists on disk
    artifactText,  \* its content
    \* --- the locals of sync
    mirrors,
    raw,           \* the capture text read from the artifact
    ref_updates,   \* the parsed RefUpdateSet
    refspecs,      \* the refspecs built from it
    continue_on_reject,
    confirmed,     \* origin_updates_confirmed's result: "none", "true", "false"
    nextMirror,    \* the position of the push loop in mirrors
    \* --- the locals of origin_updates_confirmed
    timeout,
    now,           \* time.time(), in seconds since the session began
    deadline,
    pending,
    unresolved,
    idx,           \* the position of the probe loop in pending
    \* --- the primary remote
    userPush,      \* the ref movements the user's push asked for
    accepted,      \* whether the primary accepts them
    applied,       \* the positions in userPush the primary has applied
    tips,          \* the tip the primary advertises for each ref (None: absent)
    thirdParty,    \* pushes by others the primary has taken
    \* --- what the session did
    reads,         \* read attempts on the capture artifact
    lastProbe,     \* the last tip lookup: the update, whether the transport
                   \* raised, the tip returned, whether the update stayed
                   \* unresolved
    probed,        \* the updates looked up at least once
    observed,      \* the updates dropped from pending as resolved
    seenResolved,  \* the updates a lookup that did not fail showed on the primary
    lastProbeTime, \* the time the last lookup ended
    pushes,        \* the transport push calls made, in order
    report,        \* log lines (bg) and console lines, in order
    \* --- the pre-push hook file
    hook,          \* its text (None: there is no file)
    hookExec,      \* whether it is executable
    hookBefore,    \* its text before the last operation on it
    lastOp,        \* the last operation: "none", "install", "uninstall",
                   \* "declined", "remove"
    nOps,          \* the operations run on it so far
    strips,        \* a text and the results of remove_gitecho_hook_block applied
                   \* to it, over and over
    hookOrig,      \* the hook file's text before the first operation on it
    ops,           \* the operations run on it, in order
    \* --- linking mirrors
    lastLink,      \* the last "ge add": its URL, what resolve_remote_name
                   \* returned, whether a remote was created, and the remotes
                   \* before it
    linked,        \* the URLs "ge add" has linked
    nLinks         \* the "ge add" runs so far

argVars   == <<bg, all, refs_file, origin_remote>>
envVars   == <<isRepo, remotes, urls, envContinue, artifactText>>
parseVars == <<raw, ref_updates, refspecs>>
pollVars  == <<timeout, now, deadline, pending, unresolved, idx>>
originVars == <<userPush, accepted, applied, tips, thirdParty>>
probeHist == <<lastProbe, probed, observed, seenResolved, lastProbeTime>>
syncVars  == <<caller, argVars, envVars, artifact, mirrors, continue_on_reject,
               confirmed, nextMirror, pollVars, originVars, reads, probeHist,
               pushes, report>>

hookVars  == <<hook, hookExec, hookBefore, lastOp, nOps, strips, hookOrig, ops>>

linkVars  == <<lastLink, linked, nLinks>>

vars == <<pc, parseVars, syncVars, hookVars, linkVars>>

(***************************************************************************)
(* Bounds of the model.                                                    *)
(***************************************************************************)
MaxLines == 2          \* lines of a capture text given to the parser
MaxProbeSeconds == 1   \* the longest a tip lookup takes
MaxTimeout == 2        \* the largest timeout of a direct call of the poll
MaxThirdParty == 1     \* pushes by others to the primary during a session
MaxParts == 2          \* pieces a hook file is put together from
MaxOps == 2            \* installs and uninstalls run on a hook file
MaxLinks == 2          \* runs of "ge add" on a repository

(***************************************************************************)
(* The capture texts the parser is applied to: up to MaxLines lines, each  *)
(* followed by a line terminator or by nothing.                            *)
(***************************************************************************)
SHA_A == "a1b2c3"
SHA_B == "b4b4b4"
SHA_C == "c0ffee"
SHA_T == "7a97a9"
NEARLY_ZERO_SHA == "000000000000000000000000000000000000000"

CaptureLines ==
    { "refs/heads/main " \o SHA_A \o " refs/heads/main " \o ZERO_SHA,
      "(delete) " \o ZERO_SHA \o " refs/tags/v1 " \o SHA_A,
      "  refs/heads/dev\t" \o NEARLY_ZERO_SHA \o "  refs/heads/dev " \o SHA_A \o " ",
      "refs/heads/main " \o SHA_A \o " refs/heads/main",
      "refs/heads/main " \o ZERO_SHA \o " refs/heads/main " \o SHA_A \o " extra",
      "" }

LineTerminators == {"\n", "\r\n", ""}

RECURSIVE CaptureTexts(_)
CaptureTexts(n) ==
    IF n = 0 THEN {""}
    ELSE LET shorter == CaptureTexts(n - 1)
         IN  shorter \cup {t \o l \o e : t \in shorter, l \in CaptureLines,
                                         e \in LineTerminators}

(***************************************************************************)
(* The inputs of a session.                                                *)
(***************************************************************************)
Refs == {"refs/heads/main", "refs/tags/v1"}

UpdMain == <<"refs/heads/main", SHA_A, "refs/heads/main", SHA_B>>
DelTag  == <<"(delete)", ZERO_SHA, "refs/tags/v1", SHA_T>>

\* The ref movements of the user's push.
PushSets == {<<>>, <<UpdMain>>, <<DelTag>>, <<UpdMain, DelTag>>}

\* What the hook block's "cat" writes for a push: one line per update.
RECURSIVE Render(_)
Render(updates) ==
    IF updates = <<>> THEN ""
    ELSE LET u == Head(updates)
         IN  u[1] \o " " \o u[2] \o " " \o u[3] \o " " \o u[4] \o "\n"
                \o Render(Tail(updates))

MalformedText == "refs/heads/main " \o SHA_A \o " refs/heads/main\n"

\* The artifact holds the push's lines, or was cut to nothing, or is corrupt.
ArtifactTexts(updates) == {Render(updates), "", MalformedText}

RemoteConfigs ==
    { <<"origin", "upstream">>,
      <<"echo-b", "origin", "echoes", "echo-a">> }

\* The override variable: not set, set to an accepted value, set to another.
EnvValues == {"", "True", "0"}

InitialTips == [r \in Refs |-> IF r = "refs/heads/main" THEN SHA_B ELSE SHA_T]

\* A URL for each remote of a session, which reads only the names.
UrlsFor(names) ==
    [i \in 1..Len(names) |-> "git@" \o names[i] \o ".example:team/app.git"]

NoLink == [url |-> "", name |-> "", already_linked |-> FALSE, created |-> FALSE,
           existing |-> <<>>, existing_urls |-> <<>>]

\* No "ge add" has run.
NoLinks == lastLink = NoLink /\ linked = {} /\ nLinks = 0

NoProbe == [update |-> <<>>, raised |-> FALSE, tip |-> None, kept |-> FALSE]

\* No hook file is being worked on.
NoHook ==
    /\ hook = None /\ hookExec = FALSE /\ hookBefore = None
    /\ lastOp = "none" /\ nOps = 0 /\ strips = <<>>
    /\ hookOrig = None /\ ops = <<>>

\* The session's own state before it has done anything.
FreshSession ==
    /\ mirrors = <<>>
    /\ raw = ""
    /\ refspecs = <<>>
    /\ continue_on_reject = FALSE
    /\ confirmed = "none"
    /\ nextMirror = 1
    /\ now = 0
    /\ deadline = 0
    /\ pending = <<>>
    /\ unresolved = <<>>
    /\ idx = 1
    /\ applied = {}
    /\ tips = InitialTips
    /\ thirdParty = 0
    /\ reads = 0
    /\ lastProbe = NoProbe
    /\ probed = {}
    /\ observed = {}
    /\ seenResolved = {}
    /\ lastProbeTime = 0
    /\ pushes = <<>>
    /\ report = <<>>

\* "ge sync ..." is about to run.
InitSync ==
    /\ pc = "sync"
    /\ caller = "sync"
    /\ bg \in BOOLEAN
    /\ all \in BOOLEAN
    /\ refs_file \in {None, "gitecho-refs.tmp"}
    /\ isRepo \in BOOLEAN
    /\ remotes \in (IF isRepo THEN RemoteConfigs ELSE {<<>>})
    /\ urls = UrlsFor(remotes)
    \* only a background session inside a repository reads these three
    /\ origin_remote \in (IF bg /\ isRepo THEN {"origin", "echo-a"} ELSE {"origin"})
    /\ envContinue \in (IF bg /\ isRepo THEN EnvValues ELSE {""})
    /\ accepted \in (IF bg /\ isRepo THEN BOOLEAN ELSE {FALSE})
    /\ userPush \in PushSets
    /\ artifact \in (IF refs_file = None THEN {FALSE} ELSE BOOLEAN)
    /\ artifactText \in (IF artifact THEN ArtifactTexts(userPush) ELSE {""})
    /\ ref_updates = <<>>
    /\ timeout = ORIGIN_CONFIRM_TIMEOUT_SECONDS
    /\ FreshSession
    /\ NoHook
    /\ NoLinks

\* origin_updates_confirmed is about to be called on its own.
InitConfirm ==
    /\ pc = "confirm_enter"
    /\ caller = "direct"
    /\ bg = FALSE /\ all = FALSE /\ refs_file = None /\ origin_remote = "origin"
    /\ isRepo = TRUE /\ remotes = <<"origin">> /\ urls = UrlsFor(remotes)
    /\ envContinue = ""
    /\ artifact = FALSE /\ artifactText = ""
    /\ userPush \in PushSets
    /\ accepted \in BOOLEAN
    /\ ref_updates = userPush
    /\ timeout \in 0..MaxTimeout
    /\ FreshSession
    /\ NoHook
    /\ NoLinks

Init == InitSync \/ InitConfirm

(***************************************************************************)
(* The primary remote, which the session only observes.                    *)
(***************************************************************************)
\* The session reads the primary's tips only inside origin_updates_confirmed, so
\* the primary's steps are taken from the call on; a step taken before the first
\* lookup stands for any earlier one.
Running == pc \in {"confirm_enter", "loop_check", "probe", "pass_end"}

\* What "git ls-remote <origin> <ref>" prints.
LsRemoteOutput(ref) ==
    IF tips[ref] = None THEN "" ELSE tips[ref] \o "\t" \o ref \o "\n"

\* The primary applies one of the ref movements of the push it accepted.
OriginApply(i) ==
    /\ Running
    /\ accepted
    /\ i \in 1..Len(userPush)
    /\ i \notin applied
    /\ applied' = applied \cup {i}
    /\ tips' = [tips EXCEPT ![userPush[i][3]] =
                   IF userPush[i][2] = ZERO_SHA THEN None ELSE userPush[i][2]]
    /\ UNCHANGED <<linkVars, hookVars, pc, parseVars, caller, argVars, envVars, artifact, mirrors,
                   continue_on_reject, confirmed, nextMirror, pollVars, userPush,
                   accepted, thirdParty, reads, probeHist, pushes, report>>

\* Somebody else moves the branch on the primary.
ThirdPartyPush ==
    /\ Running
    /\ thirdParty < MaxThirdParty
    /\ thirdParty' = thirdParty + 1
    /\ tips' = [tips EXCEPT !["refs/heads/main"] = SHA_C]
    /\ UNCHANGED <<linkVars, hookVars, pc, parseVars, caller, argVars, envVars, artifact, mirrors,
                   continue_on_reject, confirmed, nextMirror, pollVars, userPush,
                   accepted, applied, reads, probeHist, pushes, report>>

(***************************************************************************)
(* sync, lines 271-342.                                                    *)
(***************************************************************************)
Line(sink, level, event, remote) ==
    [sink |-> sink, level |-> level, event |-> event, remote |-> remote]

\* Lines 278-279: get_git_root, then the mirrors among the remotes.
SyncStart ==
    /\ pc = "sync"
    /\ IF isRepo
       THEN /\ mirrors' = SelectSeq(remotes, IsMirrorRemote)
            /\ pc' = "load"
            /\ UNCHANGED report
       ELSE /\ report' = Append(report, Line("console", "ERROR", "not_a_repository", ""))
            /\ pc' = "exit"
            /\ UNCHANGED mirrors
    /\ UNCHANGED <<linkVars, hookVars, parseVars, caller, argVars, envVars, artifact,
                   continue_on_reject, confirmed, nextMirror, pollVars,
                   originVars, reads, probeHist, pushes>>

\* load_ref_updates (lines 104-118) and build_refspecs (line 281).  The read and
\* the unlink each succeed or raise OSError; neither can succeed on a missing file.
LoadRefUpdates ==
    /\ pc = "load"
    /\ IF refs_file = None
       THEN /\ ref_updates' = <<>>
            /\ UNCHANGED <<raw, artifact, reads>>
       ELSE \E readOk \in (IF artifact THEN BOOLEAN ELSE {FALSE}),
               unlinkOk \in (IF artifact THEN BOOLEAN ELSE {FALSE}) :
                /\ reads' = reads + 1
                /\ raw' = IF readOk THEN artifactText ELSE raw
                /\ artifact' = (artifact /\ ~unlinkOk)
                /\ ref_updates' = IF readOk THEN ParseRefUpdates(artifactText)
                                            ELSE <<>>
    /\ refspecs' = BuildRefspecs(ref_updates')
    /\ pc' = "check_mirrors"
    /\ UNCHANGED <<linkVars, hookVars, caller, argVars, envVars, mirrors, continue_on_reject,
                   confirmed, nextMirror, pollVars, originVars, probeHist,
                   pushes, report>>

\* Lines 283-285.
CheckMirrors ==
    /\ pc = "check_mirrors"
    /\ IF mirrors = <<>>
       THEN /\ report' = IF bg THEN report
                         ELSE Append(report, Line("console", "WARN", "no_mirrors", ""))
            /\ pc' = "done"
       ELSE /\ pc' = IF bg THEN "bg_prologue" ELSE "push"
            /\ UNCHANGED report
    /\ UNCHANGED <<linkVars, hookVars, parseVars, caller, argVars, envVars, artifact, mirrors,
                   continue_on_reject, confirmed, nextMirror, pollVars,
                   originVars, reads, probeHist, pushes>>

\* Lines 288-295 and 313-314: the background prologue up to the call of
\* origin_updates_confirmed.
BgPrologue ==
    /\ pc = "bg_prologue"
    /\ continue_on_reject' = ShouldContinueOnOriginReject(envContinue)
    /\ LET started == Append(report, Line("log", "INFO", "started", ""))
       IN  IF IsMirrorRemote(origin_remote)
           THEN /\ report' = Append(started,
                                Line("log", "INFO", "skipped_mirror_triggered", ""))
                /\ pc' = "done"
           ELSE IF ref_updates # <<>>
           THEN /\ report' = started
                /\ pc' = "confirm_enter"
           ELSE IF refs_file # None /\ ~all
           THEN /\ report' = Append(started,
                                Line("log", "WARN", "no_ref_updates_captured", ""))
                /\ pc' = "push"
           ELSE /\ report' = started
                /\ pc' = "push"
    /\ UNCHANGED <<linkVars, hookVars, parseVars, caller, argVars, envVars, artifact, mirrors,
                   confirmed, nextMirror, pollVars, originVars, reads,
                   probeHist, pushes>>

(***************************************************************************)
(* origin_updates_confirmed, lines 143-171.                                *)
(***************************************************************************)
\* Lines 149-153.
ConfirmEnter ==
    /\ pc = "confirm_enter"
    /\ IF ref_updates = <<>>
       THEN /\ confirmed' = "true"
            /\ pc' = "confirm_ret"
            /\ UNCHANGED <<deadline, pending>>
       ELSE /\ deadline' = now + timeout
            /\ pending' = ref_updates
            /\ pc' = "loop_check"
            /\ UNCHANGED confirmed
    /\ UNCHANGED <<linkVars, hookVars, parseVars, caller, argVars, envVars, artifact, mirrors,
                   continue_on_reject, nextMirror, timeout, now, unresolved, idx,
                   originVars, reads, probeHist, pushes, report>>

\* Lines 155-156 and 171: the loop condition.
LoopCheck ==
    /\ pc = "loop_check"
    /\ IF now < deadline
       THEN /\ unresolved' = <<>>
            /\ idx' = 1
            /\ pc' = "probe"
            /\ UNCHANGED confirmed
       ELSE /\ confirmed' = "false"
            /\ pc' = "confirm_ret"
            /\ UNCHANGED <<unresolved, idx>>
    /\ UNCHANGED <<linkVars, hookVars, parseVars, caller, argVars, envVars, artifact, mirrors,
                   continue_on_reject, nextMirror, timeout, now, deadline, pending,
                   originVars, reads, probeHist, pushes, report>>

\* Lines 157-163: one tip lookup, which takes up to MaxProbeSeconds.
Probe ==
    /\ pc = "probe"
    /\ \E raised \in BOOLEAN, d \in 0..MaxProbeSeconds :
          LET u == pending[idx]
              remote_tip == LsRemoteSha(raised, LsRemoteOutput(u[3]))
              kept == StaysUnresolved(u, remote_tip)
          IN  /\ unresolved' = IF kept THEN Append(unresolved, u) ELSE unresolved
              /\ now' = now + d
              /\ lastProbe' = [update |-> u, raised |-> raised, tip |-> remote_tip,
                                kept |-> kept]
              /\ probed' = probed \cup {u}
              /\ observed' = IF kept THEN observed ELSE observed \cup {u}
              /\ seenResolved' = IF ~raised /\ ~kept THEN seenResolved \cup {u}
                                 ELSE seenResolved
              /\ lastProbeTime' = now + d
    /\ idx' = idx + 1
    /\ pc' = IF idx = Len(pending) THEN "pass_end" ELSE "probe"
    /\ UNCHANGED <<linkVars, hookVars, parseVars, caller, argVars, envVars, artifact, mirrors,
                   continue_on_reject, confirmed, nextMirror, timeout, deadline,
                   pending, originVars, reads, pushes, report>>

\* A pass that sleeps before it looks at what is unresolved.
PassEndSleepsFirst ==
    /\ pc = "pass_end"
    /\ now' = now + 1
    /\ IF unresolved = <<>>
       THEN /\ confirmed' = "true"
            /\ pc' = "confirm_ret"
            /\ UNCHANGED pending
       ELSE /\ pending' = unresolved
            /\ pc' = "loop_check"
            /\ UNCHANGED confirmed
    /\ UNCHANGED <<linkVars, hookVars, parseVars, caller, argVars, envVars, artifact, mirrors,
                   continue_on_reject, nextMirror, timeout, deadline, unresolved,
                   idx, originVars, reads, probeHist, pushes, report>>

\* Lines 165-169: the end of a pass, and the sleep before the next.
PassEnd ==
    /\ pc = "pass_end"
    /\ IF unresolved = <<>>
       THEN /\ confirmed' = "true"
            /\ pc' = "confirm_ret"
            /\ UNCHANGED <<pending, now>>
       ELSE /\ pending' = unresolved
            /\ now' = now + 1
            /\ pc' = "loop_check"
            /\ UNCHANGED confirmed
    /\ UNCHANGED <<linkVars, hookVars, parseVars, caller, argVars, envVars, artifact, mirrors,
                   continue_on_reject, nextMirror, timeout, deadline, unresolved,
                   idx, originVars, reads, probeHist, pushes, report>>

\* The direct caller takes the result.
ConfirmReturnDirect ==
    /\ pc = "confirm_ret"
    /\ caller = "direct"
    /\ pc' = "done"
    /\ UNCHANGED <<linkVars, hookVars, parseVars, syncVars>>

\* Lines 295-312: sync takes the result.
ConfirmReturn ==
    /\ pc = "confirm_ret"
    /\ caller = "sync"
    /\ IF confirmed = "false"
       THEN IF continue_on_reject
            THEN /\ report' = Append(report,
                                Line("log", "WARN", "not_confirmed_continuing", ""))
                 /\ pc' = "push"
            ELSE /\ report' = Append(report,
                                Line("log", "WARN", "not_confirmed_skipped", ""))
                 /\ pc' = "done"
       ELSE /\ report' = Append(report, Line("log", "INFO", "confirmed", ""))
            /\ pc' = "push"
    \* the frame of origin_updates_confirmed is gone
    /\ now' = 0 /\ deadline' = 0 /\ pending' = <<>> /\ unresolved' = <<>> /\ idx' = 1
    /\ UNCHANGED <<linkVars, hookVars, parseVars, caller, argVars, envVars, artifact, mirrors,
                   continue_on_reject, confirmed, nextMirror, timeout,
                   originVars, reads, probeHist, pushes>>

(***************************************************************************)
(* The mirror push executor.                                               *)
(***************************************************************************)
\* A transport call made without the custom environment of lines 179-183.
CallWithoutGuard(remote, mode, specs, ok) ==
    [remote |-> remote, mode |-> mode, refspecs |-> specs, skip_hook |-> "",
     ok |-> ok]

Call(remote, mode, specs, ok) ==
    [remote |-> remote, mode |-> mode, refspecs |-> specs, skip_hook |-> "1",
     ok |-> ok]

PushOutcomes(all_refs) ==
    IF all_refs THEN {"ok", "fail_first", "fail_second"} ELSE {"ok", "fail_first"}

\* A push executor whose all-refs mode forgets the tags.
PushAllWithoutTags(remote, all_refs, specs, outcome) ==
    IF all_refs
    THEN <<Call(remote, "all", <<>>, outcome = "ok")>>
    ELSE IF specs # <<>>
    THEN <<Call(remote, "refspecs", specs, outcome = "ok")>>
    ELSE <<Call(remote, "default", <<>>, outcome = "ok")>>

\* push_with_fail_fast_auth (lines 173-193): the transport calls it makes, each
\* under SKIP_HOOK_ENV = "1", when the calls end as outcome says.
PushWithFailFastAuth(remote, all_refs, specs, outcome) ==
    IF all_refs
    THEN IF outcome = "fail_first"
         THEN <<Call(remote, "all", <<>>, FALSE)>>
         ELSE <<Call(remote, "all", <<>>, TRUE),
                Call(remote, "tags", <<>>, outcome = "ok")>>
    ELSE IF specs # <<>>
    THEN <<Call(remote, "refspecs", specs, outcome = "ok")>>
    ELSE <<Call(remote, "default", <<>>, outcome = "ok")>>

\* A push loop that does not wait for the poll: it also runs between two passes.
PushMirrorEarly ==
    /\ pc \in {"push", "loop_check"}
    /\ nextMirror <= Len(mirrors)
    /\ \E outcome \in PushOutcomes(all) :
          LET remote == mirrors[nextMirror]
              calls  == IF all THEN PushWithFailFastAuth(remote, TRUE, <<>>, outcome)
                        ELSE IF refspecs # <<>>
                        THEN PushWithFailFastAuth(remote, FALSE, refspecs, outcome)
                        ELSE PushWithFailFastAuth(remote, FALSE, <<>>, outcome)
              sink   == IF bg THEN "log" ELSE "console"
          IN  /\ pushes' = pushes \o calls
              /\ report' = Append(report,
                              IF outcome = "ok"
                              THEN Line(sink, "INFO", "synced", remote)
                              ELSE Line(sink, "ERROR", "failed", remote))
    /\ nextMirror' = nextMirror + 1
    /\ pc' = IF pc # "push" THEN pc
             ELSE IF nextMirror = Len(mirrors) THEN "done" ELSE "push"
    /\ UNCHANGED <<linkVars, hookVars, parseVars, caller, argVars, envVars, artifact, mirrors,
                   continue_on_reject, confirmed, pollVars, originVars, reads,
                   probeHist>>

\* A push loop without the try/except: the first failure ends the session.
PushMirrorAborts ==
    /\ pc = "push"
    /\ \E outcome \in PushOutcomes(all) :
          LET remote == mirrors[nextMirror]
              calls  == IF all THEN PushWithFailFastAuth(remote, TRUE, <<>>, outcome)
                        ELSE IF refspecs # <<>>
                        THEN PushWithFailFastAuth(remote, FALSE, refspecs, outcome)
                        ELSE PushWithFailFastAuth(remote, FALSE, <<>>, outcome)
              sink   == IF bg THEN "log" ELSE "console"
          IN  /\ pushes' = pushes \o calls
              /\ report' = IF outcome = "ok"
                           THEN Append(report, Line(sink, "INFO", "synced", remote))
                           ELSE report
              /\ pc' = IF outcome # "ok" \/ nextMirror = Len(mirrors)
                       THEN "done" ELSE "push"
    /\ nextMirror' = nextMirror + 1
    /\ UNCHANGED <<linkVars, hookVars, parseVars, caller, argVars, envVars, artifact, mirrors,
                   continue_on_reject, confirmed, pollVars, originVars, reads,
                   probeHist>>

\* Lines 316-342: one turn of the loop over the mirrors.
PushMirror ==
    /\ pc = "push"
    /\ \E outcome \in PushOutcomes(all) :
          LET remote == mirrors[nextMirror]
              calls  == IF all THEN PushWithFailFastAuth(remote, TRUE, <<>>, outcome)
                        ELSE IF refspecs # <<>>
                        THEN PushWithFailFastAuth(remote, FALSE, refspecs, outcome)
                        ELSE PushWithFailFastAuth(remote, FALSE, <<>>, outcome)
              sink   == IF bg THEN "log" ELSE "console"
          IN  /\ pushes' = pushes \o calls
              /\ report' = Append(report,
                              IF outcome = "ok"
                              THEN Line(sink, "INFO", "synced", remote)
                              ELSE Line(sink, "ERROR", "failed", remote))
    /\ nextMirror' = nextMirror + 1
    /\ pc' = IF nextMirror = Len(mirrors) THEN "done" ELSE "push"
    /\ UNCHANGED <<linkVars, hookVars, parseVars, caller, argVars, envVars, artifact, mirrors,
                   continue_on_reject, confirmed, pollVars, originVars, reads,
                   probeHist>>

Next ==
    \/ SyncStart
    \/ LoadRefUpdates
    \/ CheckMirrors
    \/ BgPrologue
    \/ ConfirmEnter
    \/ LoopCheck
    \/ Probe
    \/ PassEnd
    \/ ConfirmReturnDirect
    \/ ConfirmReturn
    \/ PushMirror
    \/ \E i \in 1..2 : OriginApply(i)
    \/ ThirdPartyPush

Spec == Init /\ [][Next]_vars

(***************************************************************************)
(* Properties of the sync session and of the confirmation poll (Spec).     *)
(***************************************************************************)
PollPcs == {"confirm_enter", "loop_check", "probe", "pass_end", "confirm_ret"}

HasReservedPrefix(name) == Len(name) >= 5 /\ SubSeq(name, 1, 5) = "echo-"

MirrorNames == {remotes[i] : i \in {j \in 1..Len(remotes) : HasReservedPrefix(remotes[j])}}

PushedTo == {pushes[i].remote : i \in 1..Len(pushes)}

IsAllZero(sha) == Len(sha) = 40 /\ \A i \in 1..40 : Ch(sha, i) = "0"

\* The not-confirmed warning of lines 297-309 is in the report.
WarnedNotConfirmed ==
    \E i \in 1..Len(report) :
        /\ report[i].level = "WARN"
        /\ report[i].event \in {"not_confirmed_continuing", "not_confirmed_skipped"}
        /\ \A j \in 1..Len(report) :
              report[j].event \in {"synced", "failed"} => i < j

\* C1: in a background session with the override unset, no mirror push is
\* attempted when the primary rejected the push, that is, when the primary never
\* comes to reflect the captured ref movements (there are some, and it applies
\* none of them), whatever the tip lookups do.
C1_NoMirrorPushAfterRejection ==
    (caller = "sync" /\ bg /\ envContinue = "" /\ ref_updates # <<>> /\ ~accepted)
        => pushes = <<>>

\* C2: when the confirmation step runs, it has returned before the first mirror
\* push: no push has been made while the poll is running (so none precedes or
\* interleaves with a lookup), and after a push the poll's result is in.
C2_ConfirmBeforePush ==
    /\ pc \in PollPcs => pushes = <<>>
    /\ (pushes # <<>> /\ probed # {}) => confirmed \in {"true", "false"}

C2_Witness ==
    /\ caller = "sync"
    /\ probed # {}
    /\ confirmed = "true"
    /\ Len(pushes) >= 2

\* C3: when the confirmation times out in a background session, the session warns
\* and pushes to no mirror if the override is not set, and warns, then pushes to
\* every mirror, if the override is set to an accepted value.
C3_TimeoutPolicy ==
    (pc = "done" /\ caller = "sync" /\ bg /\ confirmed = "false") =>
        /\ envContinue = "" => (pushes = <<>> /\ WarnedNotConfirmed)
        /\ envContinue = "True" => (PushedTo = MirrorNames /\ WarnedNotConfirmed)

C3_Witness ==
    /\ pc = "done" /\ caller = "sync" /\ bg /\ confirmed = "false"
    /\ envContinue = "True"
    /\ Cardinality(PushedTo) = 2

\* C4: for a non-empty update set the poll returns true at the end of the pass in
\* which the last pending update was seen resolved (tip = local_sha, or the ref
\* gone for a deletion), with no sleep after it and whatever the deadline, and
\* returns false only once the deadline has passed with an update pending; it
\* goes on polling only while an update is pending; for an empty update set it
\* returns true with no lookup and no sleep.
C4_ConfirmedResult ==
    /\ pc = "confirm_ret" =>
          IF ref_updates = <<>>
          THEN confirmed = "true" /\ probed = {} /\ now = 0
          ELSE \/ /\ confirmed = "true"
                  /\ unresolved = <<>>
                  /\ now = lastProbeTime
                  /\ \A i \in 1..Len(ref_updates) : ref_updates[i] \in observed
               \/ /\ confirmed = "false"
                  /\ now >= deadline
                  /\ pending # <<>>
    /\ (pc = "loop_check" /\ probed # {}) => (pending # <<>> /\ pending = unresolved)
    /\ (lastProbe # NoProbe /\ ~lastProbe.raised) =>
          (lastProbe.kept <=>
              IF IsAllZero(lastProbe.update[2]) THEN lastProbe.tip # None
              ELSE lastProbe.tip # lastProbe.update[2])

C4_Witness ==
    /\ pc = "confirm_ret"
    /\ Len(ref_updates) = 2
    /\ confirmed = "true"
    /\ ~lastProbe.raised
    /\ now > 0
    /\ now < deadline

\* C5: a tip lookup that failed never resolves the update it was made for: the
\* update stays pending.
C5_FailedLookupStaysPending ==
    lastProbe.raised => lastProbe.kept

\* C6: a session that reaches the push phase attempts a push on every remote whose
\* name has the reserved prefix and on no other remote; a failure on one mirror
\* does not stop the attempts on the others, and each mirror's outcome is
\* reported once.
C6_EveryMirrorAttempted ==
    /\ PushedTo \subseteq MirrorNames
    /\ (pc = "done" /\ pushes # <<>>) =>
          /\ PushedTo = MirrorNames
          /\ \A m \in MirrorNames :
                LET lines == {i \in 1..Len(report) :
                                 /\ report[i].remote = m
                                 /\ report[i].event \in {"synced", "failed"}}
                    failed == \E i \in 1..Len(pushes) :
                                 pushes[i].remote = m /\ ~pushes[i].ok
                IN  /\ Cardinality(lines) = 1
                    /\ \A i \in lines :
                          report[i].event = IF failed THEN "failed" ELSE "synced"

C6_Witness ==
    /\ pc = "done"
    /\ Len(pushes) = 2
    /\ ~pushes[1].ok
    /\ pushes[2].ok
    /\ pushes[1].remote # pushes[2].remote

\* The transport calls made for one remote, in order.
CallsTo(r) == SelectSeq(pushes, LAMBDA c : c.remote = r)

ModesOf(calls) == [i \in 1..Len(calls) |-> calls[i].mode]

\* The sessions the installed hook starts for the session's own pushes.
SessionsFromOwnPushes ==
    {i \in 1..Len(pushes) :
        HookLaunchesSync(pushes[i].skip_hook, TRUE, pushes[i].remote)}

\* C14: a push made by the tool to a mirror starts no further session: every
\* mirror push runs with the guard variable set to 1; the installed hook block
\* does nothing when the guard is 1 or when the destination's name has the mirror
\* prefix; a background session whose origin remote has the mirror prefix makes
\* no push; so the session's pushes start no session, and one user push starts
\* at most the one session.
C14_NoRecursiveSession ==
    /\ \A i \in 1..Len(pushes) : pushes[i].skip_hook = "1"
    /\ \A skip \in {"", "0", "1", "true"}, ge_found \in BOOLEAN,
          dest \in {"origin", "upstream", "echoes", "echo-a", "echo-"} :
          (skip = "1" \/ HasReservedPrefix(dest)) =>
              ~HookLaunchesSync(skip, ge_found, dest)
    /\ (caller = "sync" /\ bg /\ HasReservedPrefix(origin_remote)) => pushes = <<>>
    /\ SessionsFromOwnPushes = {}

C14_Witness ==
    /\ pc = "done" /\ caller = "sync" /\ bg /\ refs_file # None
    /\ origin_remote = "origin"
    /\ HookLaunchesSync("", TRUE, origin_remote)
    /\ Len(pushes) = 2
    /\ pushes[1].ok /\ pushes[2].ok

\* C17 as stated: for each mirror the executor picks its mode in priority order:
\* with allRefs two operations, all branches then all tags, whatever the
\* refspecs; else with a non-empty refspec list exactly one push carrying the
\* whole list, the same list in the same order for every mirror; else one
\* default push.
C17_PushModes ==
    \A r \in PushedTo :
        LET calls == CallsTo(r)
        IN  IF all
            THEN /\ ModesOf(calls) = <<"all", "tags">>
                 /\ \A i \in 1..Len(calls) : calls[i].refspecs = <<>>
            ELSE IF refspecs # <<>>
            THEN /\ ModesOf(calls) = <<"refspecs">>
                 /\ calls[1].refspecs = refspecs
                 /\ refspecs = BuildRefspecs(ref_updates)
            ELSE /\ ModesOf(calls) = <<"default">>
                 /\ calls[1].refspecs = <<>>

\* C17, amended: as C17, except that with allRefs the push of all tags is made
\* only if the push of all branches did not fail: the operations for a mirror
\* are all branches then all tags, or the failed push of all branches alone.
C17_PushModesUnlessFailed ==
    \A r \in PushedTo :
        LET calls == CallsTo(r)
        IN  IF all
            THEN /\ \/ ModesOf(calls) = <<"all", "tags">> /\ calls[1].ok
                    \/ ModesOf(calls) = <<"all">> /\ ~calls[1].ok
                 /\ \A i \in 1..Len(calls) : calls[i].refspecs = <<>>
            ELSE IF refspecs # <<>>
            THEN /\ ModesOf(calls) = <<"refspecs">>
                 /\ calls[1].refspecs = refspecs
                 /\ refspecs = BuildRefspecs(ref_updates)
            ELSE /\ ModesOf(calls) = <<"default">>
                 /\ calls[1].refspecs = <<>>

C17_Witness ==
    /\ pc = "done" /\ all /\ Len(refspecs) = 2
    /\ ModesOf(pushes) = <<"all", "all", "tags">>
    /\ ~pushes[1].ok /\ pushes[2].ok /\ pushes[3].ok

\* C18: for a non-empty update set and any timeout, the poll does not return
\* false before it has looked up the primary's tip for every captured update at
\* least once.
C18_AtLeastOnePass ==
    (pc = "confirm_ret" /\ confirmed = "false" /\ ref_updates # <<>>) =>
        \A i \in 1..Len(ref_updates) : ref_updates[i] \in probed

\* The elements of a sequence.
Range(seq) == {seq[i] : i \in 1..Len(seq)}

\* C19: in the poll the pending set only shrinks: what is kept for the next pass
\* is part of what was pending, an update dropped as resolved is never pending
\* or looked up again, and when the poll returns true every captured update was
\* seen resolved on the primary by some lookup (not necessarily all at once, nor
\* still at the return).
C19_PendingOnlyShrinks ==
    /\ Range(pending) \subseteq Range(ref_updates)
    /\ pc = "loop_check" => Range(pending) \cap observed = {}
    /\ pc = "probe" => pending[idx] \notin observed
    /\ pc \in {"probe", "pass_end"} =>
          /\ Range(unresolved) \subseteq Range(pending)
          /\ Len(unresolved) <= Len(pending)
    /\ (pc = "confirm_ret" /\ confirmed = "true") =>
          Range(ref_updates) \subseteq seenResolved

\* The poll has returned true although the branch it saw resolved has since moved
\* on the primary.
C19_Witness ==
    /\ pc = "confirm_ret" /\ confirmed = "true"
    /\ Len(ref_updates) = 2
    /\ Range(ref_updates) \subseteq seenResolved
    /\ \E u \in Range(ref_updates) : u[2] # ZERO_SHA /\ tips[u[3]] # u[2]

\* C7: the capture artifact handed to a session is read at most once and is gone
\* once load has returned or the session has ended, on every path.
C7_ArtifactSingleUse ==
    /\ reads <= 1
    /\ (refs_file # None /\ pc \notin {"sync", "load"}) => ~artifact

(***************************************************************************)
(* SpecParse: parse and buildRefspecs applied to a capture text.           *)
(***************************************************************************)
\* Everything of a session at rest, for the specifications that run none.
NoSession ==
    /\ caller = "none"
    /\ bg = FALSE /\ all = FALSE /\ refs_file = None /\ origin_remote = "origin"
    /\ isRepo = TRUE /\ envContinue = ""
    /\ artifact = FALSE /\ artifactText = ""
    /\ userPush = <<>> /\ accepted = FALSE
    /\ timeout = ORIGIN_CONFIRM_TIMEOUT_SECONDS
    /\ mirrors = <<>> /\ continue_on_reject = FALSE /\ confirmed = "none"
    /\ nextMirror = 1 /\ now = 0 /\ deadline = 0 /\ pending = <<>>
    /\ unresolved = <<>> /\ idx = 1 /\ applied = {} /\ tips = InitialTips
    /\ thirdParty = 0 /\ reads = 0 /\ lastProbe = NoProbe /\ probed = {}
    /\ observed = {} /\ seenResolved = {} /\ lastProbeTime = 0
    /\ pushes = <<>> /\ report = <<>>

InitParse ==
    /\ pc = "raw"
    /\ raw \in CaptureTexts(MaxLines)
    /\ ref_updates = <<>>
    /\ refspecs = <<>>
    /\ remotes = <<>>
    /\ urls = <<>>
    /\ NoSession
    /\ NoHook
    /\ NoLinks

Parse ==
    /\ pc = "raw"
    /\ ref_updates' = ParseRefUpdates(raw)
    /\ pc' = "parsed"
    /\ UNCHANGED <<linkVars, hookVars, raw, refspecs, syncVars>>

Build ==
    /\ pc = "parsed"
    /\ refspecs' = BuildRefspecs(ref_updates)
    /\ pc' = "built"
    /\ UNCHANGED <<linkVars, hookVars, raw, ref_updates, syncVars>>

NextParse == Parse \/ Build

SpecParse == InitParse /\ [][NextParse]_vars

(***************************************************************************)
(* SpecHook: installs and uninstalls on a hook file, and                   *)
(* remove_gitecho_hook_block applied to its text.                          *)
(***************************************************************************)
LegacyBlock ==
    LEGACY_HEAD \o "    ge sync --bg >> ~/.gitecho.log 2>&1 &\nfi\n"

\* What a hook file is put together from: user lines, the managed block as
\* install_hook writes it, the legacy block, and marker lines on their own.
HookParts ==
    { SHEBANG \o "\n",
      "exit 0\n",
      "echo tail",
      "\n",
      ScriptContent,
      LegacyBlock,
      HOOK_MARKER_START \o "\n",
      HOOK_MARKER_END \o "\n" }

RECURSIVE HookTexts(_)
HookTexts(n) ==
    IF n = 0 THEN {""}
    ELSE LET shorter == HookTexts(n - 1)
         IN  shorter \cup {t \o q : t \in shorter, q \in HookParts}

InitHook ==
    /\ pc = "hook"
    /\ hook \in {None} \cup HookTexts(MaxParts)
    /\ hookExec = FALSE
    /\ hookBefore = None
    /\ lastOp = "none"
    /\ nOps = 0
    /\ strips = <<IF hook = None THEN "" ELSE hook>>
    /\ hookOrig = hook
    /\ ops = <<>>
    /\ remotes = <<"origin", "echo-a", "upstream", "echo-b">>
    /\ urls = UrlsFor(remotes)
    /\ NoLinks
    /\ raw = "" /\ ref_updates = <<>> /\ refspecs = <<>>
    /\ NoSession

\* install_hook, lines 219-246.
InstallHook ==
    /\ pc = "hook"
    /\ lastOp # "remove"
    /\ nOps < MaxOps
    /\ hookBefore' = hook
    /\ hook' = InstalledText(hook)
    /\ hookExec' = TRUE
    /\ lastOp' = "install"
    /\ nOps' = nOps + 1
    /\ ops' = Append(ops, "install")
    /\ UNCHANGED <<pc, strips, hookOrig, parseVars, syncVars, linkVars>>

\* nuke, lines 385-406: the user confirms or declines.
Nuke ==
    /\ pc = "hook"
    /\ lastOp # "remove"
    /\ nOps < MaxOps
    /\ \E yes \in BOOLEAN :
          IF yes
          THEN /\ hook' = IF hook = None THEN None ELSE NukedText(hook)
               /\ hookExec' = (hookExec /\ hook' # None)
               /\ remotes' = SelectSeq(remotes, LAMBDA r : ~IsMirrorRemote(r))
               /\ urls' = LET kept == {i \in 1..Len(remotes) :
                                          ~IsMirrorRemote(remotes[i])}
                          IN  [k \in 1..Cardinality(kept) |-> urls[Nth(kept, k)]]
               /\ lastOp' = "uninstall"
          ELSE /\ lastOp' = "declined"
               /\ UNCHANGED <<hook, hookExec, remotes, urls>>
    /\ hookBefore' = hook
    /\ nOps' = nOps + 1
    /\ ops' = Append(ops, lastOp')
    /\ UNCHANGED <<linkVars, pc, strips, hookOrig, parseVars, caller, argVars, isRepo, envContinue,
                   artifactText, artifact, mirrors, continue_on_reject, confirmed,
                   nextMirror, pollVars, originVars, reads, probeHist, pushes,
                   report>>

\* remove_gitecho_hook_block applied to the last text of strips.
RemoveBlock ==
    /\ pc = "hook"
    /\ lastOp \in {"none", "remove"}
    /\ Len(strips) < 3
    /\ strips' = Append(strips, RemoveGitechoHookBlock(strips[Len(strips)]))
    /\ lastOp' = "remove"
    /\ UNCHANGED <<pc, hook, hookExec, hookBefore, nOps, hookOrig, ops, parseVars,
                   syncVars, linkVars>>

NextHook == InstallHook \/ Nuke \/ RemoveBlock

SpecHook == InitHook /\ [][NextHook]_vars

(***************************************************************************)
(* SpecLink: runs of "ge add" on a repository.                             *)
(***************************************************************************)
URL_HTTPS == "https://github.com/user/repo.git"
URL_SCP == "git@github.com:user/repo.git"
URL_TEAM == "https://github.com/team/repo"

\* The URLs given to "ge add".
LinkUrls ==
    { URL_HTTPS,
      URL_SCP,
      "https://GitHub.com/other/Repo.git/",
      "https://github.com/third/repo",
      "ssh://git@gitlab.com:22/u/My_Proj.git",
      "git@host.example:org/repo.git",
      "/srv/git/mirror.git" }

\* The remotes of the repository before the first "ge add".
LinkConfigs ==
    { [names |-> <<>>, urls |-> <<>>],
      [names |-> <<"origin">>, urls |-> <<URL_HTTPS>>],
      [names |-> <<"origin", "echo-github-com", "echo-github-com-repo">>,
       urls  |-> <<URL_HTTPS, URL_SCP, URL_TEAM>>] }

InitLink ==
    /\ pc = "link"
    /\ \E config \in LinkConfigs : remotes = config.names /\ urls = config.urls
    /\ raw = "" /\ ref_updates = <<>> /\ refspecs = <<>>
    /\ NoSession
    /\ NoHook
    /\ NoLinks

\* add, lines 257-268, given what resolve_remote_name returned: create_remote
\* succeeds or raises.
AddResolved(url, create_ok, remote_name, already_linked) ==
    /\ lastLink' = [url |-> url, name |-> remote_name,
                    already_linked |-> already_linked,
                    created |-> ~already_linked /\ create_ok,
                    existing |-> remotes, existing_urls |-> urls]
    /\ IF already_linked
       THEN /\ UNCHANGED <<remotes, urls>>
            /\ linked' = linked \cup {url}
            /\ report' = Append(report,
                            Line("console", "WARN", "already_linked", remote_name))
       ELSE IF create_ok
       THEN /\ remotes' = Append(remotes, remote_name)
            /\ urls' = Append(urls, url)
            /\ linked' = linked \cup {url}
            /\ report' = report
                            \o <<Line("console", "INFO", "linked", remote_name),
                                 Line("log", "INFO", "added", remote_name)>>
       ELSE /\ UNCHANGED <<remotes, urls, linked>>
            /\ report' = Append(report,
                            Line("console", "ERROR", "error", remote_name))
    /\ IF already_linked \/ create_ok
       THEN /\ hook' = InstalledText(hook)
            /\ hookExec' = TRUE
            /\ hookBefore' = hook
            /\ lastOp' = "install"
            /\ ops' = Append(ops, "install")
       ELSE UNCHANGED <<hook, hookExec, hookBefore, lastOp, ops>>

AddWith(url, create_ok, resolved) ==
    AddResolved(url, create_ok, resolved[1], resolved[2])

\* add, lines 252-268.
Add(url, create_ok) ==
    /\ pc = "link"
    /\ isRepo
    /\ nLinks < MaxLinks
    /\ AddWith(url, create_ok, ResolveRemoteName(remotes, urls, url))
    /\ nLinks' = nLinks + 1
    /\ UNCHANGED <<pc, nOps, strips, hookOrig, parseVars, caller, argVars, isRepo,
                   envContinue, artifactText, artifact, mirrors, continue_on_reject,
                   confirmed, nextMirror, pollVars, originVars, reads, probeHist,
                   pushes>>

NextLink == \E url \in LinkUrls, create_ok \in BOOLEAN : Add(url, create_ok)

SpecLink == InitLink /\ [][NextLink]_vars

(***************************************************************************)
(* Properties of the parser and the refspec builder (SpecParse).           *)
(***************************************************************************)
\* C8: parse then buildRefspecs yields one refspec for each line with exactly 4
\* whitespace-separated fields, in the order of the lines, and none for any other
\* line; the refspec is ":<remote_ref>" if and only if the line's local_sha is 40
\* zeros, and "<local_ref>:<remote_ref>" otherwise.
C8_RefspecPerFourFieldLine ==
    pc = "built" =>
        LET lines == SplitLines(raw)
            fields(k) == SplitWs(lines[k])
            good == {k \in 1..Len(lines) : Len(fields(k)) = 4}
        IN  /\ Len(refspecs) = Cardinality(good)
            /\ \A j \in 1..Len(refspecs) :
                  LET f == fields(Nth(good, j))
                  IN  refspecs[j] = IF IsAllZero(f[2]) THEN ":" \o f[3]
                                    ELSE f[1] \o ":" \o f[3]

C8_Witness ==
    /\ pc = "built"
    /\ refspecs = <<":refs/tags/v1", "refs/heads/main:refs/heads/main">>

(***************************************************************************)
(* Properties of the hook script manager (SpecHook).                       *)
(***************************************************************************)
\* C9: removeManagedBlock is idempotent: applied to its own result it changes
\* nothing, for any hook text.
C9_RemoveIdempotent ==
    Len(strips) = 3 => strips[3] = strips[2]

HasMarkerPair(x) == Contains(x, HOOK_MARKER_START) /\ Contains(x, HOOK_MARKER_END)

\* The text before the start marker (all of it when there is no marker pair).
TextBeforeBlock(x) ==
    IF HasMarkerPair(x) THEN SubSeq(x, 1, IndexOf(x, HOOK_MARKER_START) - 1) ELSE x

\* The text after the end marker's line (nothing when there is no marker pair).
TextAfterBlock(x) ==
    IF HasMarkerPair(x)
    THEN LET e == IndexOf(x, HOOK_MARKER_END) + Len(HOOK_MARKER_END)
         IN  SubSeq(x, IF e <= Len(x) /\ Ch(x, e) = "\n" THEN e + 1 ELSE e, Len(x))
    ELSE ""

\* C10: install and uninstall leave the content outside the marker pair as it
\* was: the text before the start marker followed by the text after the end
\* marker is the same bytes in the same order, blank lines and a missing trailing
\* newline included.
C10_OutsideMarkersUnchanged ==
    (lastOp \in {"install", "uninstall"} /\ hookBefore # None /\ hook # None) =>
        TextBeforeBlock(hook) \o TextAfterBlock(hook)
            = TextBeforeBlock(hookBefore) \o TextAfterBlock(hookBefore)

StartMarkers(x) == Cardinality(Occurrences(x, HOOK_MARKER_START))

EndMarkers(x) == Cardinality(Occurrences(x, HOOK_MARKER_END))

\* The text holds a block the legacy pattern matches.
HasLegacyBlock(x) == LegacySub(x, 1) # x

\* C11: after any sequence of installs and uninstalls on a hook file, the file
\* holds at most one managed block: at most one start marker, at most one end
\* marker and no legacy block; after an install it holds exactly one; and an
\* install after an install leaves the text as it was.
C11_AtMostOneBlock ==
    /\ (lastOp \in {"install", "uninstall"} /\ hook # None) =>
          /\ StartMarkers(hook) <= 1
          /\ EndMarkers(hook) <= 1
          /\ ~HasLegacyBlock(hook)
    /\ lastOp = "install" =>
          /\ StartMarkers(hook) = 1
          /\ EndMarkers(hook) = 1
          /\ Contains(hook, ScriptContent)
    /\ (Len(ops) >= 2 /\ ops[Len(ops)] = "install" /\ ops[Len(ops) - 1] = "install") =>
          hook = hookBefore

\* C15: uninstall strips the managed block from the hook file; if what is left
\* is empty or only the bare shebang line it deletes the file, otherwise it
\* writes the stripped text back; so after an uninstall no hook file made of
\* only a shebang, or of nothing, remains.
C15_UninstallDeletesVestigial ==
    lastOp = "uninstall" =>
        /\ hook = None \/ Strip(hook) \notin {"", SHEBANG}
        /\ (hook # None /\ hookBefore # None) =>
              hook = RemoveGitechoHookBlock(hookBefore)

\* The text holds nothing of the tool: no marker and no legacy block.
HeldNoBlock(x) ==
    /\ ~Contains(x, HOOK_MARKER_START)
    /\ ~Contains(x, HOOK_MARKER_END)
    /\ ~HasLegacyBlock(x)

\* C20: install followed by uninstall is a round trip on a hook file that held no
\* managed block: if there was no file, or only the bare shebang, there is no
\* file afterwards; if it held user content ending in exactly one newline, the
\* file afterwards is the same text.
C20_InstallUninstallRoundTrip ==
    (ops = <<"install", "uninstall">> /\ (hookOrig = None \/ HeldNoBlock(hookOrig))) =>
        IF hookOrig = None THEN hook = None
        ELSE IF Strip(hookOrig) = SHEBANG THEN hook = None
        ELSE (/\ Strip(hookOrig) # ""
              /\ EndsWith(hookOrig, "\n")
              /\ ~EndsWith(hookOrig, "\n\n")) => hook = hookOrig

C20_Witness ==
    /\ ops = <<"install", "uninstall">>
    /\ hookOrig = SHEBANG \o "\n" \o "exit 0\n"
    /\ Contains(hookBefore, ScriptContent)
    /\ hook = hookOrig

(***************************************************************************)
(* Properties of linking (SpecLink).                                       *)
(***************************************************************************)
\* The remotes that have the URL.
RemotesWith(u) == {i \in 1..Len(urls) : urls[i] = u}

\* C12: after any sequence of links the remote names are pairwise distinct and
\* each linked URL has exactly one remote: linking a URL that a remote already
\* has returns that remote's name with alreadyLinked = true and creates no
\* remote; otherwise the name returned is not among the existing names, and it
\* is the name of the remote created for the URL.
C12_LinkedOnce ==
    /\ \A i, j \in 1..Len(remotes) : i # j => remotes[i] # remotes[j]
    /\ \A u \in linked : Cardinality(RemotesWith(u)) = 1
    /\ lastLink # NoLink =>
          LET before == lastLink.existing
              holders == {i \in 1..Len(before) :
                             lastLink.existing_urls[i] = lastLink.url}
          IN  IF holders # {}
              THEN /\ lastLink.already_linked
                   /\ \E i \in holders : lastLink.name = before[i]
                   /\ ~lastLink.created
                   /\ remotes = before
                   /\ urls = lastLink.existing_urls
              ELSE /\ ~lastLink.already_linked
                   /\ lastLink.name \notin Range(before)
                   /\ IF lastLink.created
                      THEN /\ remotes = Append(before, lastLink.name)
                           /\ urls = Append(lastLink.existing_urls, lastLink.url)
                      ELSE remotes = before

C12_Witness ==
    /\ nLinks = 2
    /\ lastLink.already_linked
    /\ lastLink.existing = <<"origin", "echo-github-com">>
    /\ lastLink.url = URL_SCP
    /\ lastLink.name = "echo-github-com"
    /\ remotes = lastLink.existing

\* C13: the name resolve returns when a URL is linked begins with the reserved
\* prefix, whether alreadyLinked is true or false, so the remote of every linked
\* URL is one of the mirrors sync pushes to.
C13_ResolvedNameHasPrefix ==
    /\ lastLink # NoLink => HasReservedPrefix(lastLink.name)
    /\ \A u \in linked : \A i \in RemotesWith(u) : IsMirrorRemote(remotes[i])

\* C16: when the URL is not among the remotes, resolve returns the first name not
\* among the existing names from prefix+hostSlug, prefix+hostSlug-repoSlug,
\* prefix+hostSlug-repoSlug-N for N = 2, 3, ...: every earlier candidate is
\* taken, and N is at most the number of existing names plus 2.
C16_FirstFreeCandidate ==
    (lastLink # NoLink /\ ~lastLink.already_linked) =>
        LET existing == Range(lastLink.existing)
            slugs == RemoteParts(lastLink.url)
            short == REMOTE_PREFIX \o slugs[1]
            long == short \o "-" \o slugs[2]
            numbered(n) == long \o "-" \o ToString(n)
        IN  \/ lastLink.name = short /\ short \notin existing
            \/ /\ lastLink.name = long
               /\ short \in existing
               /\ long \notin existing
            \/ \E n \in 2..(Cardinality(existing) + 2) :
                  /\ lastLink.name = numbered(n)
                  /\ numbered(n) \notin existing
                  /\ short \in existing
                  /\ long \in existing
                  /\ \A k \in 2..(n - 1) : numbered(k) \in existing

C16_Witness ==
    /\ lastLink.created
    /\ lastLink.name = "echo-github-com-repo-3"
    /\ "echo-github-com-repo-2" \in Range(lastLink.existing)
====
